---- MODULE Spec2Model ----
(***************************************************************************)
(* A model of components/epd_driver/font.c: the UTF-8 decoder (utf8_len,   *)
(* next_cp), the glyph lookup (get_glyph), the rasterizer (draw_char), the *)
(* metrics (get_char_bounds, get_text_bounds) and the composer (writeln,   *)
(* write_string).  One behaviour is one call of write_string.              *)
(***************************************************************************)
EXTENDS Integers, Sequences, FiniteSets, TLC

(***************************************************************************)
(* Bounds of the model.                                                    *)
(***************************************************************************)
\* longest input string (in codepoints) of the rendering inputs
MaxStrLen == 3
\* longest input string (in bytes) of the ill-formed inputs
MaxIllFormedLen == 2
\* longest input (in codepoints) of the well-formed UTF-8 inputs
MaxCps == 2
\* number of codepoints the generated interval tables range over
TableSpan == 4
\* how many bytes past the end of the string copy a read may go before the
\* model stops following it
MaxOverrun == 1
\* how many entries past the end of the utf[] table the scan may go
MaxTableOverrun == 1
\* the screen, scaled down (epd_driver.h: 960 x 540)
EPD_WIDTH == 8
EPD_HEIGHT == 6

(***************************************************************************)
(* C arithmetic.                                                           *)
(***************************************************************************)
\* C's / on int: truncation towards zero (b > 0)
CDiv(a, b) == IF a >= 0 THEN a \div b ELSE -((-a) \div b)

\* C's % on int: the sign of the dividend (b > 0)
CMod(a, b) == a - b * CDiv(a, b)

RECURSIVE BitAnd(_, _)
BitAnd(a, b) ==
  IF a = 0 \/ b = 0 THEN 0
  ELSE (IF a % 2 = 1 /\ b % 2 = 1 THEN 1 ELSE 0) + 2 * BitAnd(a \div 2, b \div 2)

RECURSIVE BitOr(_, _)
BitOr(a, b) ==
  IF a = 0 THEN b
  ELSE IF b = 0 THEN a
  ELSE (IF a % 2 = 1 \/ b % 2 = 1 THEN 1 ELSE 0) + 2 * BitOr(a \div 2, b \div 2)

RECURSIVE Pow2(_)
Pow2(n) == IF n = 0 THEN 1 ELSE 2 * Pow2(n - 1)

\* x << s for s >= 0; next_cp shifts at most 7 bits by at most 18, so no bit
\* leaves the 32-bit value
Shl(x, s) == x * Pow2(s)

\* conversion of an int argument to a uint16_t parameter
ToU16(v) == v % 65536

min(x, y) == IF x < y THEN x ELSE y

(***************************************************************************)
(* The UTF-8 decoder.                                                      *)
(***************************************************************************)
\* utf[0] .. utf[5]; the last entry is a pointer to a zeroed utf_t, not a
\* null pointer, so it is an entry of the scan like the others
utf ==
  << [mask |-> 63,  lead |-> 128, beg |-> 0,     end_ |-> 0,       bits_stored |-> 6],
     [mask |-> 127, lead |-> 0,   beg |-> 0,     end_ |-> 127,     bits_stored |-> 7],
     [mask |-> 31,  lead |-> 192, beg |-> 128,   end_ |-> 2047,    bits_stored |-> 5],
     [mask |-> 15,  lead |-> 224, beg |-> 2048,  end_ |-> 65535,   bits_stored |-> 4],
     [mask |-> 7,   lead |-> 240, beg |-> 65536, end_ |-> 1114111, bits_stored |-> 3],
     [mask |-> 0,   lead |-> 0,   beg |-> 0,     end_ |-> 0,       bits_stored |-> 0] >>

\* the values a read past an object can produce that the model follows
UndefBytes == {0, 65}
UndefCodepoints == {0, 65}
\* the lengths the scan can return once it has run past utf[5]: it stops at
\* the first null or matching entry it happens to read
UndefLens == Len(utf)..(Len(utf) + MaxTableOverrun)

\* the loop of utf8_len from entry len on: the index of the first entry with
\* (ch & ~mask) == lead, or Len(utf) when the scan leaves the table
RECURSIVE Utf8Scan(_, _)
Utf8Scan(ch, len) ==
  IF len >= Len(utf) THEN len
  ELSE IF BitAnd(ch, 255 - utf[len + 1].mask) = utf[len + 1].lead THEN len
  ELSE Utf8Scan(ch, len + 1)

\* assert("invalid unicode."): the asserted expression is a string literal,
\* a non-null pointer, so the assertion never fails
AssertInvalidUnicode == TRUE

\* what utf8_len(ch) does: [abort, lens]; lens is the set of values it can
\* return (one value unless the scan read past the table)
utf8_len(ch) ==
  LET len == Utf8Scan(ch, 0)
      lens == IF len >= Len(utf) THEN UndefLens ELSE {len}
  IN  [abort |-> (len > 4 /\ ~AssertInvalidUnicode),
       undef |-> len >= Len(utf),
       lens  |-> lens]

\* what a call of next_cp can do: return codepoint cp with the string
\* pointer at pos, abort, or fault; undef marks undefined behaviour
Ret(cp, pos, undef) ==
  [kind |-> "ret", cp |-> cp, pos |-> pos, undef |-> undef]

Stop(kind) ==
  [kind |-> kind, cp |-> 0, pos |-> 0, undef |-> TRUE]

Undefined(pos) ==
  {Stop("fault")} \cup {Ret(c, pos, TRUE) : c \in UndefCodepoints}

\* Continuation with the shift lowered after its use instead of before
RECURSIVE ContinuationShiftLate(_, _, _, _, _)
ContinuationShiftLate(mem, chr, i, bytes, codep) ==
  IF i >= bytes THEN codep
  ELSE ContinuationShiftLate(mem, chr, i + 1, bytes,
         BitOr(codep, Shl(BitAnd(mem[chr + i], utf[1].mask),
                          utf[1].bits_stored * (bytes - i))))

\* the loop over the continuation bytes chr[i] .. chr[bytes - 1]; the shift
\* before iteration i is bits_stored * (bytes - i)
RECURSIVE Continuation(_, _, _, _, _)
Continuation(mem, chr, i, bytes, codep) ==
  IF i >= bytes THEN codep
  ELSE Continuation(mem, chr, i + 1, bytes,
         BitOr(codep, Shl(BitAnd(mem[chr + i], utf[1].mask),
                          utf[1].bits_stored * (bytes - 1 - i))))

\* next_cp from the lead byte ch on, for a length utf8_len returned
DecodeLen(mem, pos, ch, bytes) ==
  IF bytes = 0
  THEN \* shift = bits_stored * (0 - 1): a shift by a negative amount, and
       \* the pointer is not advanced
       Undefined(pos)
  ELSE IF bytes >= Len(utf)
  THEN \* utf[bytes] is read past the table
       Undefined(pos + bytes)
  ELSE IF pos + bytes - 1 > Len(mem)
  THEN \* a continuation byte is read past the string copy
       Undefined(pos + bytes)
  ELSE {Ret(Continuation(mem, pos, 1, bytes,
              Shl(BitAnd(ch, utf[bytes + 1].mask),
                  utf[1].bits_stored * (bytes - 1))),
            pos + bytes, FALSE)}

Decode(mem, pos, ch) ==
  IF ch = 0 THEN {Ret(0, pos, pos > Len(mem))}
  ELSE LET l == utf8_len(ch)
       IN  IF l.abort THEN {Stop("abort")}
           ELSE UNION {DecodeLen(mem, pos, ch, bytes) : bytes \in l.lens}
                \cup (IF l.undef THEN {Stop("fault")} ELSE {})

\* next_cp(&string) with string at index pos of mem (1-based): the set of
\* its possible outcomes
next_cp(mem, pos) ==
  IF pos <= Len(mem) THEN Decode(mem, pos, mem[pos])
  ELSE IF pos > Len(mem) + MaxOverrun THEN {Stop("fault")}
  ELSE {Stop("fault")} \cup UNION {Decode(mem, pos, b) : b \in UndefBytes}

(***************************************************************************)
(* The glyph lookup.                                                       *)
(***************************************************************************)
\* *glyph = NULL
NoGlyph == -1

\* get_glyph_from with the last codepoint of an interval left out of it
RECURSIVE get_glyph_from_last_excluded(_, _, _)
get_glyph_from_last_excluded(font, code_point, i) ==
  IF i >= Len(font.intervals) THEN NoGlyph
  ELSE LET interval == font.intervals[i + 1]
       IN  IF code_point >= interval.first /\ code_point < interval.last
           THEN interval.offset + (code_point - interval.first)
           ELSE IF code_point < interval.first THEN NoGlyph
           ELSE get_glyph_from_last_excluded(font, code_point, i + 1)

\* the loop of get_glyph from interval i on: the index into font->glyph, or
\* NoGlyph
RECURSIVE get_glyph_from(_, _, _)
get_glyph_from(font, code_point, i) ==
  IF i >= Len(font.intervals) THEN NoGlyph
  ELSE LET interval == font.intervals[i + 1]
       IN  IF code_point >= interval.first /\ code_point <= interval.last
           THEN interval.offset + (code_point - interval.first)
           ELSE IF code_point < interval.first THEN NoGlyph
           ELSE get_glyph_from(font, code_point, i + 1)

get_glyph(font, code_point) == get_glyph_from(font, code_point, 0)

(***************************************************************************)
(* The metrics.                                                            *)
(***************************************************************************)
\* the initial values of the accumulators of get_text_bounds
BoundsMinInit == 100000
BoundsMaxInit == -1

\* get_char_bounds moving the cursor by the advance of the first glyph when
\* the codepoint has no glyph
get_char_bounds_advance_on_miss(font, cp, b) ==
  LET g == get_glyph(font, cp)
      glyph == font.glyph[(IF g = NoGlyph THEN 0 ELSE g) + 1]
      x1 == b.x + glyph.left
      y1 == b.y + (glyph.top - glyph.height)
      x2 == x1 + glyph.width
      y2 == y1 + glyph.height
  IN  IF g = NoGlyph THEN [b EXCEPT !.x = @ + glyph.advance_x]
      ELSE [x    |-> b.x + glyph.advance_x,
            y    |-> b.y,
            minx |-> IF x1 < b.minx THEN x1 ELSE b.minx,
            miny |-> IF y1 < b.miny THEN y1 ELSE b.miny,
            maxx |-> IF x2 > b.maxx THEN x2 ELSE b.maxx,
            maxy |-> IF y2 > b.maxy THEN y2 ELSE b.maxy]

\* get_char_bounds on the accumulators b = [x, y, minx, miny, maxx, maxy]
get_char_bounds(font, cp, b) ==
  LET g == get_glyph(font, cp)
  IN  IF g = NoGlyph THEN b
      ELSE LET glyph == font.glyph[g + 1]
               x1 == b.x + glyph.left
               y1 == b.y + (glyph.top - glyph.height)
               x2 == x1 + glyph.width
               y2 == y1 + glyph.height
           IN  [x    |-> b.x + glyph.advance_x,
                y    |-> b.y,
                minx |-> IF x1 < b.minx THEN x1 ELSE b.minx,
                miny |-> IF y1 < b.miny THEN y1 ELSE b.miny,
                maxx |-> IF x2 > b.maxx THEN x2 ELSE b.maxx,
                maxy |-> IF y2 > b.maxy THEN y2 ELSE b.maxy]

\* the locals of get_text_bounds before its loop
BoundsStart(x, y) ==
  [x |-> x, y |-> y, minx |-> BoundsMinInit, miny |-> BoundsMinInit,
   maxx |-> BoundsMaxInit, maxy |-> BoundsMaxInit]

\* what get_text_bounds stores through x1, y1, w, h after its loop
BoundsResult(x, b) ==
  LET x1 == min(x, b.minx)
  IN  [x1 |-> x1, w |-> b.maxx - x1, y1 |-> b.miny, h |-> b.maxy - b.miny]

(***************************************************************************)
(* The rasterizer.  A buffer is [size, fill, data]: size bytes, of which   *)
(* data holds those written since the buffer was filled with fill.         *)
(***************************************************************************)
\* the value memset gives the temporary buffer
White == 255

ReadByte(buffer, p) ==
  IF p \in DOMAIN buffer.data THEN buffer.data[p] ELSE buffer.fill

WriteByte(buffer, p, v) ==
  [buffer EXCEPT !.data = [q \in (DOMAIN buffer.data) \cup {p} |->
                             IF q = p THEN v ELSE buffer.data[q]]]

\* the two tests of draw_char that skip a pixel
Clipped(xx, yy, buf_width, buf_height) ==
  \/ xx < 0
  \/ CDiv(xx, 2) + CMod(xx, 2) >= buf_width
  \/ yy < 0
  \/ yy >= buf_height

\* buf_pos of a pixel that is not skipped
BufPos(xx, yy, buf_width) == yy * buf_width + CDiv(xx, 2) + CMod(xx, 2)

\* PackNibble storing the nibble without keeping the other nibble of old
PackNibbleOverwrite(old, xx, v) ==
  IF CMod(xx, 2) # 0 THEN v \div 16 ELSE BitAnd(v, 240)

\* the byte stored at buf_pos, from the byte old there and the raw intensity v
PackNibble(old, xx, v) ==
  IF CMod(xx, 2) # 0
  THEN BitOr(BitAnd(old, 240), v \div 16)
  ELSE BitOr(BitAnd(old, 15), BitAnd(v, 240))

\* the pixel loop of draw_char from pixel i on; acc = [buffer, writes, pix]:
\* the buffer, the bytes stored so far (index, value before, value after) and
\* the coordinates computed so far (one per pixel gone through, so pixel i
\* is the number of them)
RECURSIVE DrawPixels(_, _, _, _, _, _, _)
DrawPixels(g, glyph, cursor_x, cursor_y, buf_width, buf_height, acc) ==
  LET i == Len(acc.pix)
  IN  IF i >= glyph.width * glyph.height THEN acc
      ELSE LET xx == cursor_x + glyph.left + (i % glyph.width)
               yy == cursor_y - glyph.top + (i \div glyph.width)
               skip == Clipped(xx, yy, buf_width, buf_height)
               px == [g |-> g, i |-> i, cx |-> cursor_x, xx |-> xx, yy |-> yy,
                      v |-> glyph.bitmap[i + 1], stored |-> ~skip]
           IN  IF skip
               THEN DrawPixels(g, glyph, cursor_x, cursor_y, buf_width, buf_height,
                               [acc EXCEPT !.pix = Append(@, px)])
               ELSE LET buf_pos == BufPos(xx, yy, buf_width)
                        old == ReadByte(acc.buffer, buf_pos)
                        new == PackNibble(old, xx, glyph.bitmap[i + 1])
                    IN  DrawPixels(g, glyph, cursor_x, cursor_y, buf_width, buf_height,
                          [buffer |-> WriteByte(acc.buffer, buf_pos, new),
                           writes |-> Append(acc.writes,
                                             [pos |-> buf_pos, old |-> old, new |-> new,
                                              xx |-> xx, yy |-> yy]),
                           pix    |-> Append(acc.pix, px)])

\* draw_char: [buffer, cursor_x] after the call, with the bytes it stored
\* and the pixel coordinates it computed
draw_char(font, buffer, cursor_x, cursor_y, buf_width, buf_height, cp) ==
  LET g == get_glyph(font, cp)
  IN  IF g = NoGlyph
      THEN [buffer |-> buffer, cursor_x |-> cursor_x, writes |-> << >>, pix |-> << >>]
      ELSE LET glyph == font.glyph[g + 1]
               acc == DrawPixels(g, glyph, cursor_x, cursor_y, buf_width, buf_height,
                                 [buffer |-> buffer, writes |-> << >>, pix |-> << >>])
           IN  [buffer |-> acc.buffer, cursor_x |-> cursor_x + glyph.advance_x,
                writes |-> acc.writes, pix |-> acc.pix]

(***************************************************************************)
(* The inputs of write_string: fonts, strings, cursors, framebuffer.       *)
(***************************************************************************)
SeqsUpTo(S, n) == UNION {[1..k -> S] : k \in 0..n}

\* the UTF-8 encoding of a scalar value
EncodeCp(cp) ==
  IF cp < 128 THEN <<cp>>
  ELSE IF cp < 2048 THEN <<192 + (cp \div 64), 128 + (cp % 64)>>
  ELSE IF cp < 65536
  THEN <<224 + (cp \div 4096), 128 + ((cp \div 64) % 64), 128 + (cp % 64)>>
  ELSE <<240 + (cp \div 262144), 128 + ((cp \div 4096) % 64),
         128 + ((cp \div 64) % 64), 128 + (cp % 64)>>

RECURSIVE EncodeAll(_)
EncodeAll(cps) ==
  IF cps = << >> THEN << >> ELSE EncodeCp(Head(cps)) \o EncodeAll(Tail(cps))

\* a font with glyphs for 'A', 'B' and U+00E9: 'A' stands on the baseline,
\* 'B' starts right of the cursor and descends below the baseline, U+00E9
\* starts left of the cursor; bitmap is what uncompress yields for the glyph
RenderFont ==
  [intervals |-> << [first |-> 65,  last |-> 66,  offset |-> 0],
                    [first |-> 233, last |-> 233, offset |-> 2] >>,
   glyph |-> << [width |-> 2, height |-> 2, advance_x |-> 3, left |-> 0, top |-> 2,
                 bitmap |-> <<31, 243, 128, 124>>],
                [width |-> 1, height |-> 3, advance_x |-> 2, left |-> 1, top |-> 2,
                 bitmap |-> <<255, 90, 16>>],
                [width |-> 2, height |-> 1, advance_x |-> 2, left |-> -1, top |-> 3,
                 bitmap |-> <<200, 77>>] >>,
   advance_y |-> 3]

\* the codepoints of the rendering inputs: 'A', 'B', U+00E9, 'z' (no glyph)
\* and the line break
RenderCps == {65, 66, 233, 122, 10}
RenderCursors == {<<0, 2>>, <<1, 3>>}

\* the bytes of the ill-formed inputs: 'A', the line break, a two-byte lead,
\* a continuation byte, a byte that matches no lead pattern
IllFormedBytes == {65, 10, 195, 169, 248}

\* scalar values at the ends of the four encoding ranges, and inside them
ValidScalars ==
  {1, 65, 127, 128, 233, 2047, 2048, 8364, 65535, 65536, 66376, 1114111}

\* the generated fonts: every table of one or two intervals over TableCps,
\* ascending and non-overlapping, the glyphs of an interval contiguous
TableCps == 65..(65 + TableSpan - 1)
UnitGlyph ==
  [width |-> 1, height |-> 1, advance_x |-> 1, left |-> 0, top |-> 1,
   bitmap |-> <<240>>]
TableIntervals == {iv \in TableCps \X TableCps : iv[1] <= iv[2]}
TableFont(ivs) ==
  LET size(k) == ivs[k][2] - ivs[k][1] + 1
      offset(k) == IF k = 1 THEN 0 ELSE size(1)
      total == IF Len(ivs) = 1 THEN size(1) ELSE size(1) + size(2)
  IN  [intervals |-> [k \in 1..Len(ivs) |->
                        [first |-> ivs[k][1], last |-> ivs[k][2], offset |-> offset(k)]],
       glyph |-> [j \in 1..total |-> UnitGlyph],
       advance_y |-> 2]
TableFonts ==
  {TableFont(<<a>>) : a \in TableIntervals}
  \cup {TableFont(<<p[1], p[2]>>) :
          p \in {q \in TableIntervals \X TableIntervals : q[1][2] < q[2][1]}}

Input(font, text, string, valid, cursor, fb) ==
  [font |-> font, text |-> text, string |-> string, valid |-> valid,
   cursor_x |-> cursor[1], cursor_y |-> cursor[2], fb |-> fb]

Inputs ==
  {Input(RenderFont, t, EncodeAll(t), TRUE, c, fb) :
     t \in SeqsUpTo(RenderCps, MaxStrLen), c \in RenderCursors, fb \in BOOLEAN}
  \cup {Input(RenderFont, << >>, s, FALSE, <<0, 2>>, FALSE) :
     s \in SeqsUpTo(IllFormedBytes, MaxIllFormedLen)}
  \cup {Input(RenderFont, t, EncodeAll(t), TRUE, <<0, 2>>, FALSE) :
     t \in SeqsUpTo(ValidScalars, MaxCps)}
  \cup {Input(f, <<c>>, <<c>>, TRUE, <<0, 2>>, TRUE) :
     f \in TableFonts, c \in 64..(65 + TableSpan)}

(***************************************************************************)
(* The state: the arguments and locals of write_string and writeln, and    *)
(* what the call did so far.                                               *)
(***************************************************************************)
VARIABLES
  input,        \* the arguments of the call
  pc,           \* where the call is: call, strsep, bounds, draw, done, fault, abort
  mem,          \* the copy strdup made, with its terminator
  newstring,    \* write_string: index into mem of the rest to split, or NULL
  token,        \* write_string: index into mem of the current line
  line_start,   \* write_string: the starting column
  cursor_x,     \* *cursor_x
  cursor_y,     \* *cursor_y
  framebuffer,  \* the caller's framebuffer (when input.fb)
  ln,           \* the locals of writeln and of its call of get_text_bounds
  regions,      \* the calls of epd_draw_grayscale_image so far
  calls,        \* the calls of writeln so far
  decoded,      \* the codepoints next_cp returned in the current loop
  pix,          \* the pixel coordinates draw_char computed for the current line
  last          \* the last call of next_cp and what followed it

vars ==
  <<input, pc, mem, newstring, token, line_start, cursor_x, cursor_y,
    framebuffer, ln, regions, calls, decoded, pix, last>>

\* a null char pointer (indices into mem start at 1)
NULL == 0
\* the delimiter given to strsep
LineFeed == 10
\* extra iterations of a codepoint loop the model follows once the loop has
\* run more often than the copy has bytes
MaxExtraIter == 1

NoBuffer == [size |-> 0, fill |-> 0, data |-> << >>]

NoLast ==
  [op |-> "none", cp |-> 0, glyph |-> NoGlyph, lead |-> 0, pos0 |-> 0, pos1 |-> 0,
   undef |-> FALSE, cx0 |-> 0, writes |-> << >>, cps |-> << >>]

LnStart ==
  [gstring |-> NULL, b |-> BoundsStart(0, 0), x1 |-> 0, y1 |-> 0, w |-> 0, h |-> 0,
   string |-> NULL, buffer |-> NoBuffer, buf_width |-> 0, buf_height |-> 0,
   baseline_height |-> 0, local_cursor_x |-> 0, local_cursor_y |-> 0,
   undef |-> FALSE]

Init ==
  /\ input \in Inputs
  /\ pc = "call"
  /\ mem = << >>
  /\ newstring = NULL
  /\ token = NULL
  /\ line_start = 0
  /\ cursor_x = input.cursor_x
  /\ cursor_y = input.cursor_y
  /\ framebuffer = IF input.fb
                   THEN [size |-> (EPD_WIDTH \div 2) * EPD_HEIGHT, fill |-> White,
                         data |-> << >>]
                   ELSE NoBuffer
  /\ ln = LnStart
  /\ regions = << >>
  /\ calls = << >>
  /\ decoded = << >>
  /\ pix = << >>
  /\ last = NoLast

\* write_string up to its loop: the copy and the starting column
WriteString ==
  /\ pc = "call"
  /\ mem' = input.string \o <<0>>
  /\ newstring' = 1
  /\ line_start' = cursor_x
  /\ pc' = "strsep"
  /\ UNCHANGED <<input, token, cursor_x, cursor_y, framebuffer, ln, regions,
                 calls, decoded, pix, last>>

\* DelimAt stopping at the terminator only
RECURSIVE DelimAtTerminatorOnly(_, _)
DelimAtTerminatorOnly(m, p) ==
  IF m[p] = 0 THEN p ELSE DelimAtTerminatorOnly(m, p + 1)

\* the first index from p on of the delimiter or the terminator
RECURSIVE DelimAt(_, _)
DelimAt(m, p) == IF m[p] = LineFeed \/ m[p] = 0 THEN p ELSE DelimAt(m, p + 1)

\* strsep yields a line: the cursor goes back to the starting column and
\* writeln starts, with get_text_bounds at its loop
NextLine ==
  /\ pc = "strsep"
  /\ newstring # NULL
  /\ LET d == DelimAt(mem, newstring)
     IN  /\ token' = newstring
         /\ mem' = [mem EXCEPT ![d] = 0]
         /\ newstring' = IF mem[d] = LineFeed THEN d + 1 ELSE NULL
  /\ cursor_x' = line_start
  /\ ln' = [LnStart EXCEPT !.gstring = newstring, !.string = newstring,
                           !.b = BoundsStart(line_start, cursor_y)]
  /\ calls' = Append(calls, [cursor_x |-> line_start, cursor_y |-> cursor_y,
                             token |-> newstring])
  /\ decoded' = << >>
  /\ pix' = << >>
  /\ last' = NoLast
  /\ pc' = "bounds"
  /\ UNCHANGED <<input, line_start, cursor_y, framebuffer, regions>>

\* strsep yields no line: write_string returns
WriteStringReturn ==
  /\ pc = "strsep"
  /\ newstring = NULL
  /\ pc' = "done"
  /\ UNCHANGED <<input, mem, newstring, token, line_start, cursor_x, cursor_y,
                 framebuffer, ln, regions, calls, decoded, pix, last>>

\* the byte next_cp finds at the string pointer (-1 past the copy)
LeadAt(pos) == IF pos <= Len(mem) THEN mem[pos] ELSE -1

\* the record of a call of next_cp at pos with outcome o: the glyph the
\* codepoint resolves to, the horizontal cursor before, the bytes draw_char
\* stored, and (when the loop ends) the codepoints the loop went through
LastCall(op, pos, o, cx0, writes, cps) ==
  [op |-> op, cp |-> o.cp,
   glyph |-> IF o.kind = "ret" /\ o.cp # 0 THEN get_glyph(input.font, o.cp)
             ELSE NoGlyph,
   lead |-> LeadAt(pos), pos0 |-> pos,
   pos1 |-> IF o.kind = "ret" THEN o.pos ELSE pos,
   undef |-> o.undef, cx0 |-> cx0, writes |-> writes, cps |-> cps]

\* a codepoint loop is followed while it has not run more often than the
\* copy has bytes (a loop that does not advance runs forever)
LoopFollowed == Len(decoded) < Len(mem) + MaxOverrun + MaxExtraIter

\* one iteration of the loop of get_text_bounds: next_cp, get_char_bounds
BoundsChar ==
  /\ pc = "bounds"
  /\ LoopFollowed
  /\ \E o \in next_cp(mem, ln.gstring) :
       /\ o.kind = "ret"
       /\ o.cp # 0
       /\ ln' = [ln EXCEPT !.gstring = o.pos,
                           !.b = get_char_bounds(input.font, o.cp, @),
                           !.undef = @ \/ o.undef]
       /\ decoded' = Append(decoded, o.cp)
       /\ last' = LastCall("bounds", ln.gstring, o, ln.b.x, << >>, << >>)
  /\ UNCHANGED <<input, pc, mem, newstring, token, line_start, cursor_x, cursor_y,
                 framebuffer, regions, calls, pix>>

\* next_cp returns 0 to get_text_bounds: it stores the bounds, and writeln
\* sets up its buffer and local cursor and reaches its own loop
BoundsEnd ==
  /\ pc = "bounds"
  /\ \E o \in next_cp(mem, ln.gstring) :
       /\ o.kind = "ret"
       /\ o.cp = 0
       /\ LET r == BoundsResult(cursor_x, ln.b)
              baseline_height == cursor_y - r.y1
              buf_width == IF input.fb THEN EPD_WIDTH \div 2
                           ELSE CDiv(r.w, 2) + CMod(r.w, 2)
              buf_height == IF input.fb THEN EPD_HEIGHT ELSE r.h
          IN  /\ ln' = [ln EXCEPT
                   !.gstring = o.pos, !.undef = @ \/ o.undef,
                   !.x1 = r.x1, !.y1 = r.y1, !.w = r.w, !.h = r.h,
                   !.baseline_height = baseline_height,
                   !.buf_width = buf_width, !.buf_height = buf_height,
                   !.buffer = IF input.fb THEN NoBuffer
                              ELSE [size |-> buf_width * buf_height, fill |-> White,
                                    data |-> << >>],
                   !.local_cursor_x = IF input.fb THEN cursor_x ELSE 0,
                   !.local_cursor_y = IF input.fb THEN cursor_y
                                      ELSE buf_height - baseline_height]
              \* malloc of a negative size fails, and memset then writes
              \* through a null pointer
              /\ pc' = IF ~input.fb /\ buf_width * buf_height < 0 THEN "fault"
                       ELSE "draw"
       /\ last' = LastCall("bounds_end", ln.gstring, o, ln.b.x, << >>, decoded)
  /\ decoded' = << >>
  /\ UNCHANGED <<input, mem, newstring, token, line_start, cursor_x, cursor_y,
                 framebuffer, regions, calls, pix>>

\* one iteration of the loop of writeln: next_cp, draw_char
DrawChar ==
  /\ pc = "draw"
  /\ LoopFollowed
  /\ \E o \in next_cp(mem, ln.string) :
       /\ o.kind = "ret"
       /\ o.cp # 0
       /\ LET d == draw_char(input.font,
                             IF input.fb THEN framebuffer ELSE ln.buffer,
                             ln.local_cursor_x, ln.local_cursor_y,
                             ToU16(ln.buf_width), ToU16(ln.buf_height), o.cp)
          IN  /\ framebuffer' = IF input.fb THEN d.buffer ELSE framebuffer
              /\ ln' = [ln EXCEPT !.string = o.pos,
                                  !.buffer = IF input.fb THEN @ ELSE d.buffer,
                                  !.local_cursor_x = d.cursor_x,
                                  !.undef = @ \/ o.undef]
              /\ pix' = pix \o d.pix
              /\ last' = LastCall("draw", ln.string, o, ln.local_cursor_x,
                                   d.writes, << >>)
       /\ decoded' = Append(decoded, o.cp)
  /\ UNCHANGED <<input, pc, mem, newstring, token, line_start, cursor_x, cursor_y,
                 regions, calls>>

\* next_cp returns 0 to writeln: without a framebuffer the region is
\* submitted and the buffer freed; writeln returns and write_string moves
\* the cursor down one line
DrawEnd ==
  /\ pc = "draw"
  /\ \E o \in next_cp(mem, ln.string) :
       /\ o.kind = "ret"
       /\ o.cp = 0
       /\ ln' = [ln EXCEPT !.string = o.pos, !.undef = @ \/ o.undef]
       /\ last' = LastCall("draw_end", ln.string, o, ln.local_cursor_x, << >>,
                            decoded)
  /\ regions' = IF input.fb THEN regions
                ELSE Append(regions,
                       [x |-> ln.x1, y |-> cursor_y - ln.h + ln.baseline_height,
                        width |-> ln.w, height |-> ln.h, buffer |-> ln.buffer,
                        token |-> token])
  /\ cursor_y' = cursor_y + input.font.advance_y
  /\ decoded' = << >>
  /\ pc' = "strsep"
  /\ UNCHANGED <<input, mem, newstring, token, line_start, cursor_x, framebuffer,
                 calls, pix>>

\* next_cp does not return: the assertion of utf8_len fails, or an access
\* outside an object faults
DecodeStop ==
  /\ pc \in {"bounds", "draw"}
  /\ LET pos == IF pc = "bounds" THEN ln.gstring ELSE ln.string
     IN  \E o \in next_cp(mem, pos) :
           /\ o.kind # "ret"
           /\ pc' = o.kind
           /\ last' = LastCall("stop", pos, o, 0, << >>, << >>)
  /\ UNCHANGED <<input, mem, newstring, token, line_start, cursor_x, cursor_y,
                 framebuffer, ln, regions, calls, decoded, pix>>

Next ==
  \/ WriteString
  \/ NextLine
  \/ WriteStringReturn
  \/ BoundsChar
  \/ BoundsEnd
  \/ DrawChar
  \/ DrawEnd
  \/ DecodeStop

Spec == Init /\ [][Next]_vars

(***************************************************************************)
(* What the claims speak of.                                               *)
(***************************************************************************)
\* the intervals of the font that contain codepoint c
Containing(font, c) ==
  {k \in 1..Len(font.intervals) :
     font.intervals[k].first <= c /\ c <= font.intervals[k].last}

\* the interval table is ascending and non-overlapping
SortedTable(font) ==
  /\ \A k \in 1..Len(font.intervals) :
       font.intervals[k].first <= font.intervals[k].last
  /\ \A k \in 1..(Len(font.intervals) - 1) :
       font.intervals[k].last < font.intervals[k + 1].first

\* the last step called next_cp and passed its codepoint on
PassedOn == last.op \in {"bounds", "draw"}

\* the last step called next_cp and next_cp returned
Returned == last.op \in {"bounds", "draw", "bounds_end", "draw_end"}

\* the lines of a sequence of codepoints or bytes, split at the line breaks
RECURSIVE SplitLines(_)
SplitLines(t) ==
  IF \A k \in 1..Len(t) : t[k] # LineFeed THEN <<t>>
  ELSE LET d == CHOOSE k \in 1..Len(t) :
                  t[k] = LineFeed /\ \A j \in 1..(k - 1) : t[j] # LineFeed
       IN  <<SubSeq(t, 1, d - 1)>> \o SplitLines(SubSeq(t, d + 1, Len(t)))

\* the number of line breaks of the input
LineBreaks == Cardinality({k \in 1..Len(input.string) : input.string[k] = LineFeed})

\* the index in the input of the first byte of line i (1-based)
LineStartIndex(i) ==
  1 +
  (IF i = 1 THEN 0
   ELSE CHOOSE d \in 1..Len(input.string) :
          /\ input.string[d] = LineFeed
          /\ Cardinality({j \in 1..d : input.string[j] = LineFeed}) = i - 1)

(***************************************************************************)
(* C3: for a font whose interval table is ascending and non-overlapping,   *)
(* get_glyph finds a glyph for a codepoint exactly when some interval      *)
(* contains the codepoint, and the glyph found is the one at index         *)
(* offset + (codepoint - first) of that interval.                          *)
(***************************************************************************)
C3_GetGlyph ==
  (PassedOn /\ SortedTable(input.font)) =>
    LET S == Containing(input.font, last.cp)
    IN  /\ (last.glyph # NoGlyph) <=> (S # {})
        /\ \A k \in S :
             last.glyph = input.font.intervals[k].offset
                          + (last.cp - input.font.intervals[k].first)

\* a glyph was found in the second interval of a table, past its first codepoint
C3_Witness ==
  /\ PassedOn
  /\ Len(input.font.intervals) = 2
  /\ last.cp > input.font.intervals[2].first
  /\ last.cp <= input.font.intervals[2].last
  /\ last.glyph > 0

(***************************************************************************)
(* C4: on a well-formed UTF-8 string the calls of next_cp return the       *)
(* encoded codepoints in order, each call advances the pointer by the      *)
(* length of the encoding it read, the call at the terminator returns 0,   *)
(* and encoding the codepoints returned gives back the bytes read.         *)
(***************************************************************************)
C4_RoundTrip ==
  input.valid =>
    LET line == SplitLines(input.text)[Len(calls)]
        pos == IF pc = "bounds" THEN ln.gstring ELSE ln.string
    IN  /\ pc \notin {"fault", "abort"}
        /\ ~ln.undef
        /\ pc \in {"bounds", "draw"} =>
             /\ Len(decoded) <= Len(line)
             /\ decoded = SubSeq(line, 1, Len(decoded))
             /\ pos = token + Len(EncodeAll(decoded))
             /\ EncodeAll(decoded) = SubSeq(mem, token, pos - 1)
        /\ PassedOn => last.pos1 = last.pos0 + Len(EncodeCp(last.cp))
        /\ last.op \in {"bounds_end", "draw_end"} =>
             /\ last.cps = line
             /\ last.lead = 0
             /\ last.pos1 = last.pos0
             /\ last.pos0 = token + Len(EncodeAll(line))
             /\ EncodeAll(last.cps) = SubSeq(mem, token, last.pos0 - 1)

\* a loop went through a four-byte and a three-byte encoding
C4_Witness ==
  /\ input.valid
  /\ last.op = "draw_end"
  /\ Len(last.cps) = 2
  /\ last.cps[1] >= 65536
  /\ last.cps[2] >= 2048
  /\ last.cps[2] < 65536

(***************************************************************************)
(* C5: without a framebuffer, write_string on a string with k line breaks  *)
(* has submitted k + 1 regions when it returns, one per line in line       *)
(* order; line i (from 0) is rendered with cursor_y at the starting        *)
(* cursor_y plus i * advance_y and cursor_x at the starting column, and on *)
(* return cursor_y is the starting cursor_y plus (k + 1) * advance_y.      *)
(***************************************************************************)
C5_RegionPerLine ==
  /\ \A i \in 1..Len(calls) :
       /\ calls[i].cursor_x = input.cursor_x
       /\ calls[i].cursor_y = input.cursor_y + (i - 1) * input.font.advance_y
       /\ calls[i].token = LineStartIndex(i)
  /\ (~input.fb) => /\ Len(regions) <= Len(calls)
                    /\ \A i \in 1..Len(regions) : regions[i].token = LineStartIndex(i)
  /\ (pc = "done") =>
       /\ Len(calls) = LineBreaks + 1
       /\ (~input.fb) => Len(regions) = LineBreaks + 1
       /\ input.fb => regions = << >>
       /\ cursor_y = input.cursor_y + (LineBreaks + 1) * input.font.advance_y
       /\ cursor_x = input.cursor_x

\* write_string has returned from a string of three lines
C5_Witness ==
  /\ pc = "done"
  /\ ~input.fb
  /\ LineBreaks = 2
  /\ Len(regions) = 3
  /\ input.string[1] # LineFeed

(***************************************************************************)
(* C7: for a codepoint outside every interval of the font, draw_char       *)
(* stores no byte and leaves the horizontal cursor as it is, and           *)
(* get_char_bounds leaves the cursor and the four accumulators as they     *)
(* are.                                                                    *)
(***************************************************************************)
C7_Step ==
  /\ (pc = "bounds" /\ pc' = "bounds" /\ last'.op = "bounds"
      /\ Containing(input.font, last'.cp) = {})
       => ln'.b = ln.b
  /\ (pc = "draw" /\ pc' = "draw" /\ last'.op = "draw"
      /\ Containing(input.font, last'.cp) = {})
       => /\ framebuffer' = framebuffer
          /\ ln'.buffer = ln.buffer
          /\ ln'.local_cursor_x = ln.local_cursor_x
          /\ last'.writes = << >>
          /\ pix' = pix

\* C7: every step of the call satisfies C7_Step
C7_UnresolvedIsNoOp == [][C7_Step]_vars

\* draw_char was called for 'z', which the font has no glyph for, after a
\* glyph was drawn
C7_Witness ==
  /\ last.op = "draw"
  /\ ~last.undef
  /\ last.cp = 122
  /\ Containing(input.font, last.cp) = {}
  /\ pix # << >>

(***************************************************************************)
(* What the claims about the rasterizer speak of.                          *)
(***************************************************************************)
\* the buffer draw_char writes to, and its dimensions as draw_char gets them
Target == IF input.fb THEN framebuffer ELSE ln.buffer
TargetWidth == ToU16(ln.buf_width)
TargetHeight == ToU16(ln.buf_height)

HighNibble(byte) == byte \div 16
LowNibble(byte) == byte % 16

\* pixel coordinates inside a buffer of buf_width bytes by buf_height rows
InRange(xx, yy) ==
  0 <= xx /\ xx < 2 * TargetWidth /\ 0 <= yy /\ yy < TargetHeight

\* the pixels of the glyph the last call of draw_char drew, at the
\* coordinates the glyph metrics give them
LastGlyph == input.font.glyph[last.glyph + 1]
LastPixels ==
  {[xx |-> last.cx0 + LastGlyph.left + (i % LastGlyph.width),
    yy |-> ln.local_cursor_y - LastGlyph.top + (i \div LastGlyph.width),
    v  |-> LastGlyph.bitmap[i + 1]] :
     i \in 0..(LastGlyph.width * LastGlyph.height - 1)}

\* the codepoints of the line just rendered all have glyphs, there is at
\* least one, and the line was decoded without undefined behaviour
LineOfGlyphs ==
  /\ last.op = "draw_end"
  /\ ~ln.undef
  /\ last.cps # << >>
  /\ \A k \in 1..Len(last.cps) : Containing(input.font, last.cps[k]) # {}

(***************************************************************************)
(* C6: draw_char changes only nibbles a glyph pixel with coordinates in    *)
(* range is stored to: a store changes one nibble of its byte (the high    *)
(* one for an even column, the low one for an odd column) and leaves the   *)
(* other, no store is outside [0, buf_width * buf_height), and a glyph     *)
(* with no pixel in range leaves the buffer as it was.                     *)
(***************************************************************************)
C6_Step ==
  (pc = "draw" /\ pc' = "draw" /\ last'.op = "draw") =>
    LET W == last'.writes
        before == Target
        after == Target'
        touched == (DOMAIN before.data) \cup (DOMAIN after.data)
        high(k) == W[k].xx % 2 = 0
    IN  /\ after.size = before.size
        /\ after.fill = before.fill
        /\ \A k \in 1..Len(W) :
             /\ 0 <= W[k].pos
             /\ W[k].pos < TargetWidth * TargetHeight
             /\ InRange(W[k].xx, W[k].yy)
             /\ high(k) => LowNibble(W[k].new) = LowNibble(W[k].old)
             /\ ~high(k) => HighNibble(W[k].new) = HighNibble(W[k].old)
        /\ \A p \in touched :
             /\ HighNibble(ReadByte(after, p)) # HighNibble(ReadByte(before, p))
                  => \E k \in 1..Len(W) : W[k].pos = p /\ high(k)
             /\ LowNibble(ReadByte(after, p)) # LowNibble(ReadByte(before, p))
                  => \E k \in 1..Len(W) : W[k].pos = p /\ ~high(k)
        /\ (last'.glyph # NoGlyph
            /\ \A px \in LastPixels' : ~InRange(px.xx, px.yy))
             => /\ W = << >>
                /\ \A p \in touched : ReadByte(after, p) = ReadByte(before, p)

\* C6: every step of the call satisfies C6_Step
C6_OnlyTargetedNibbles == [][C6_Step]_vars

\* draw_char stored a pixel of an even column into a byte whose low nibble
\* a pixel before had set, and changed the high nibble of that byte
C6_Witness ==
  /\ last.op = "draw"
  /\ last.glyph # NoGlyph
  /\ \E k \in 1..Len(last.writes) :
       /\ last.writes[k].xx % 2 = 0
       /\ LowNibble(last.writes[k].old) # LowNibble(White)
       /\ HighNibble(last.writes[k].new) # HighNibble(last.writes[k].old)

(***************************************************************************)
(* C2: every glyph pixel with 0 <= xx < 2 * buf_width and                  *)
(* 0 <= yy < buf_height is stored in the byte yy * buf_width + xx / 2, in  *)
(* the high nibble for an even xx and the low nibble for an odd xx, as the *)
(* top four bits of its intensity.                                         *)
(***************************************************************************)
C2_PixelPairsShareByte ==
  (last.op = "draw" /\ last.glyph # NoGlyph) =>
    \A px \in LastPixels :
      InRange(px.xx, px.yy) =>
        LET byte == ReadByte(Target, px.yy * TargetWidth + (px.xx \div 2))
        IN  IF px.xx % 2 = 0 THEN HighNibble(byte) = px.v \div 16
            ELSE LowNibble(byte) = px.v \div 16

(***************************************************************************)
(* C1: for a non-empty string of codepoints that all have glyphs, drawn    *)
(* from (x, y), the rectangle (x1, y1, w, h) of get_text_bounds has        *)
(* w >= 0 and h >= 0, contains every pixel draw_char computes, and each of *)
(* its four edges touches such a pixel.                                    *)
(***************************************************************************)
C1_TightBounds ==
  (LineOfGlyphs /\ input.fb) =>
    LET P == {pix[k] : k \in 1..Len(pix)}
    IN  /\ ln.w >= 0
        /\ ln.h >= 0
        /\ \A p \in P : /\ ln.x1 <= p.xx /\ p.xx < ln.x1 + ln.w
                        /\ ln.y1 <= p.yy /\ p.yy < ln.y1 + ln.h
        /\ \E p \in P : p.xx = ln.x1
        /\ \E p \in P : p.xx = ln.x1 + ln.w - 1
        /\ \E p \in P : p.yy = ln.y1
        /\ \E p \in P : p.yy = ln.y1 + ln.h - 1

(***************************************************************************)
(* C8: for a line of codepoints that all have glyphs, writeln without a    *)
(* framebuffer submits the picture direct rendering gives: the buffer has  *)
(* the size of the line's bounds, no glyph pixel is skipped, and the pixel *)
(* at (bx, by) of the region (area.x, area.y, w, h) is the screen pixel    *)
(* (area.x + bx, area.y + by) =                                            *)
(* (cursor_x + left + column, cursor_y - top + row) of direct rendering.   *)
(***************************************************************************)
C8_TemporaryBufferSamePicture ==
  (LineOfGlyphs /\ ~input.fb) =>
    LET area == regions[Len(regions)]
        call == calls[Len(calls)]
    IN  /\ area.width = ln.w
        /\ area.height = ln.h
        /\ area.buffer.size = ((ln.w + 1) \div 2) * ln.h
        /\ \A k \in 1..Len(pix) :
             LET p == pix[k]
                 glyph == input.font.glyph[p.g + 1]
             IN  /\ p.stored
                 /\ area.x + p.xx
                      = call.cursor_x + p.cx + glyph.left + (p.i % glyph.width)
                 /\ area.y + p.yy
                      = call.cursor_y - glyph.top + (p.i \div glyph.width)

(***************************************************************************)
(* C9: every call of next_cp that is not at the terminator advances the    *)
(* string pointer by at least one byte, so a codepoint loop runs at most   *)
(* once per byte of the input.                                             *)
(***************************************************************************)
C9_NextCpAdvances ==
  /\ (Returned /\ last.lead > 0) => last.pos1 > last.pos0
  /\ Len(decoded) <= Len(input.string)

(***************************************************************************)
(* C10: a lead byte that matches none of the four lead patterns            *)
(* (0xF8-0xFF) stops the decoder: no codepoint is returned for it or       *)
(* passed on to the glyph lookup, the bounds or the drawing.               *)
(***************************************************************************)
C10_InvalidLeadIsFatal ==
  (last.lead >= 248 /\ last.lead <= 255) =>
    /\ last.op = "stop"
    /\ pc \in {"abort", "fault"}
====
